---- MODULE Spec2Model ----
(***************************************************************************)
(* Model of urso/go-lumber: the HTTP transports of the lumberjack server   *)
(* (version-dispatching bulk handler and ES-bulk compatibility adapter),   *)
(* the shared ingestion channel and the consumer that completes batches.   *)
(***************************************************************************)
EXTENDS Integers, Sequences, FiniteSets, TLC

\* ------------------------------------------------------------------ bounds
\* capacity of the ingestion channel in the model (256 when the server makes
\* it itself, any capacity when it is handed in with the Channel option)
ChanCap == 2
\* most events a version-handler request carries in its one batch
MaxBatchLen == 1
\* most keepalive timer fires per request
MaxKeepalives == 1
\* most metadata/source pairs an ES-bulk request decodes
MaxEvents == 5
\* largest split threshold of the ES-bulk adapter
MaxSplit == 2

\* most calls made on one client connection
MaxClientOps == 6
\* most bytes of a response body
MaxBody == 2
\* most bytes held in the client's send buffer
MaxBuf == 1

\* ------------------------------------------------------- program constants
\* canceler: make(chan struct{}, 1)
CancelCap == 1
\* batches := make(chan info, 2)
PipeCap == 2
\* "2.0": v2.MakeIOHandler(...) is the only entry of the version table
SupportedVersions == {"2.0"}
\* versions a request may name: "" stands for a missing header
RequestVersions == {"", "2.0", "1.0"}
\* keepalive intervals the server may be configured with (0 disables)
KeepaliveOpts == {0, 3}

\* requests served by the version-dispatching handler and by the ES adapter
HReqs == {"h1", "h2", "h3"}
EReqs == {"e1"}

NoBatch == <<"none", 0>>

VARIABLES
    \* shared: the ingestion channel and the batches
    ch,           \* h.ch: FIFO of batch ids
    batchEvents,  \* batch id -> its events (lj.Batch.Events)
    gate,         \* batch id -> "open" | "closed" (lj.Batch ack channel)
    held,         \* batches the consumer has pulled and not yet completed
    pushed,       \* history: batch ids in the order their pushes completed
    pulled,       \* history: batch ids in the order they were pulled
    \* version-dispatching handler, per request
    keepalive,    \* h.opts.keepalive
    kaErr,        \* history: a Keepalive call of the request returned an error
    hpc,          \* position of the handler
    hver,         \* the request's X-Lumberjack-Version header
    hKeep,        \* hasKeepalive
    hBatch,       \* batch read by ReadBatch
    hN,           \* N := len(batch.Events)
    resp,         \* what the handler did to the response, in order
    \* ES-bulk adapter, per request
    split,        \* h.split
    silent,       \* h.silent
    epc,          \* position of the handler task
    dpc,          \* position of the drain task
    evs,          \* events: the working group
    metas,        \* metas: metadata of the working group
    decoded,      \* number of pairs decoded so far
    pipe,         \* batches: channel of packaged groups
    pipeClosed,   \* close(batches) has run
    cur,          \* info the drain task is handling
    first,        \* first: no status entry written yet
    body,         \* what was written to the response writer, in order
    estatus,      \* status line of the response (0: none yet)
    ehdr,         \* response headers added with resp.Header().Add
    egz,          \* the gzip writer over resp: "none" | "open" | "closed"
    handed,       \* history: groups handed to the pipeline, in order
    endReason,    \* history: how the decode loop ended
    \* HTTP push client (httpConn)
    cbuf,         \* c.buf: bytes written and not yet sent
    cresp,        \* c.resp: the current response (0: nil)
    canceler,     \* c.canceler: signals buffered in the channel
    cpc,          \* position of the caller of Push: "idle" | "inflight"
    closePc,      \* position of the caller of Close: "idle" | "send"
    nresp,        \* responses with status 200 received so far
    rleft,        \* response -> bytes of its body not yet read
    rclosed,      \* response -> number of Body.Close() calls
    cops,         \* calls made on the connection so far
    lastOp,       \* history: the last call
    lastErr,      \* history: what the last Push or Read returned
    lastN,        \* history: bytes the last Read returned
    lastFrom,     \* history: response the last Read read from (0: none)
    lastEof       \* history: the body reported io.EOF to the last Read

sharedVars == <<ch, batchEvents, gate, held, pushed, pulled>>
httpVars == <<keepalive, kaErr, hpc, hver, hKeep, hBatch, hN, resp>>
esVars == <<split, silent, epc, dpc, evs, metas, decoded, pipe, pipeClosed,
            cur, first, body, estatus, ehdr, egz, handed, endReason>>
clientVars == <<cbuf, cresp, canceler, cpc, closePc, nresp, rleft, rclosed,
                cops, lastOp, lastErr, lastN, lastFrom, lastEof>>
vars == <<sharedVars, httpVars, esVars, clientVars>>

\* ----------------------------------------------------------------- helpers
Range(s) == {s[i] : i \in 1..Len(s)}

Iota(n) == [i \in 1..n |-> i]

Entry(kind, num) == [k |-> kind, n |-> num]

RECURSIVE CountKind(_, _)
CountKind(s, kind) ==
    IF s = <<>> THEN 0
    ELSE (IF Head(s).k = kind THEN 1 ELSE 0) + CountKind(Tail(s), kind)

RECURSIVE Concat(_)
Concat(ss) == IF ss = <<>> THEN <<>> ELSE Head(ss) \o Concat(Tail(ss))

\* --------------------------------------------------- batch and its gate
\* lj.NewBatch(events): a batch with an open gate
NewBatch(b, events) ==
    /\ batchEvents' = [x \in DOMAIN batchEvents \cup {b} |->
                          IF x = b THEN events ELSE batchEvents[x]]
    /\ gate' = [x \in DOMAIN gate \cup {b} |->
                          IF x = b THEN "open" ELSE gate[x]]

\* <-batch.Await() can proceed
Await(b) == gate[b] = "closed"

\* batch.ACK(): closes the gate
ACK(b) == gate' = [gate EXCEPT ![b] = "closed"]

\* ------------------------------------------------------ ingestion channel
\* variant: a send that never blocks (an unbounded queue)
CanPush_Unbounded == TRUE

\* h.ch <- batch can proceed
CanPush == Len(ch) < ChanCap

\* h.ch <- batch
Push(b) ==
    /\ CanPush
    /\ ch' = Append(ch, b)
    /\ pushed' = Append(pushed, b)

\* variant: the newest batch is delivered first
Receive_Lifo ==
    /\ ch # <<>>
    /\ ch' = SubSeq(ch, 1, Len(ch) - 1)
    /\ pulled' = Append(pulled, ch[Len(ch)])
    /\ held' = held \cup {ch[Len(ch)]}
    /\ UNCHANGED <<batchEvents, gate, pushed>>
    /\ UNCHANGED <<keepalive, kaErr, hpc, hver, hKeep, hBatch, hN, resp>>
    /\ UNCHANGED <<split, silent, epc, dpc, evs, metas, decoded, pipe,
                   pipeClosed, cur, first, body, estatus, ehdr, egz, handed, endReason>>
    /\ UNCHANGED clientVars

\* Server.Receive: <-s.ReceiveChan()
Receive ==
    /\ ch # <<>>
    /\ ch' = Tail(ch)
    /\ pulled' = Append(pulled, Head(ch))
    /\ held' = held \cup {Head(ch)}
    /\ UNCHANGED <<batchEvents, gate, pushed>>
    /\ UNCHANGED <<httpVars, esVars, clientVars>>

\* the consumer completes a batch it pulled: batch.ACK()
Complete ==
    \E b \in held :
        /\ ACK(b)
        /\ held' = held \ {b}
        /\ UNCHANGED <<ch, batchEvents, pushed, pulled>>
        /\ UNCHANGED <<httpVars, esVars, clientVars>>

Consumer == Receive \/ Complete

\* ------------------------------------------- version-dispatching handler
Log(r, entries) == resp' = [resp EXCEPT ![r] = resp[r] \o entries]

\* the failure reply: WriteHeader(503), Content-type header, failure text
Unavailable == <<Entry("status", 503), Entry("hdr_content_type", 0),
                 Entry("body", 0)>>

\* variant: only the missing header is rejected, the table lookup is not
VersionRejected_MissingOnly(v) == v = ""

\* version == "" or h.versions[version] == nil
VersionRejected(v) == v = "" \/ v \notin SupportedVersions

\* serveBulk: version header and lookup in the version table
HttpDispatch(r) ==
    /\ hpc[r] = "start"
    /\ \E v \in RequestVersions :
        /\ hver' = [hver EXCEPT ![r] = v]
        /\ IF VersionRejected(v)
           THEN /\ Log(r, <<Entry("status", 400)>>)
                /\ hpc' = [hpc EXCEPT ![r] = "done"]
           ELSE /\ hpc' = [hpc EXCEPT ![r] = "codec"]
                /\ UNCHANGED resp
    /\ UNCHANGED <<keepalive, kaErr, hKeep, hBatch, hN>>
    /\ UNCHANGED <<sharedVars, esVars, clientVars>>

\* serveBulk: handler(conn) and the keepalive decision
HttpMakeCodec(r) ==
    /\ hpc[r] = "codec"
    /\ \E ok \in BOOLEAN, writerKeepalive \in BOOLEAN, isFlusher \in BOOLEAN :
        IF ~ok
        THEN /\ Log(r, Unavailable)
             /\ hpc' = [hpc EXCEPT ![r] = "done"]
             /\ UNCHANGED hKeep
        ELSE /\ hKeep' = [hKeep EXCEPT ![r] =
                             keepalive > 0 /\ writerKeepalive /\ isFlusher]
             /\ hpc' = [hpc EXCEPT ![r] = "read"]
             /\ UNCHANGED resp
    /\ UNCHANGED <<keepalive, kaErr, hver, hBatch, hN>>
    /\ UNCHANGED <<sharedVars, esVars, clientVars>>

\* variant: the ReadBatch failure is answered 503 but the handler does not
\* return, and goes on with an empty batch
HttpReadBatch_NoReturn(r) ==
    /\ hpc[r] = "read"
    /\ \E n \in (0..MaxBatchLen) \cup {-1} :
        /\ IF n = -1 THEN Log(r, Unavailable) ELSE UNCHANGED resp
        /\ NewBatch(<<r, 0>>, Iota(IF n = -1 THEN 0 ELSE n))
        /\ hBatch' = [hBatch EXCEPT ![r] = <<r, 0>>]
        /\ hN' = [hN EXCEPT ![r] = IF n = -1 THEN 0 ELSE n]
        /\ hpc' = [hpc EXCEPT ![r] = "push"]
    /\ UNCHANGED <<keepalive, kaErr, hver, hKeep>>
    /\ UNCHANGED <<ch, held, pushed, pulled>>
    /\ UNCHANGED <<esVars, clientVars>>

\* serveBulk: ljReader.ReadBatch() and N := len(batch.Events)
HttpReadBatch(r) ==
    /\ hpc[r] = "read"
    /\ \E n \in (0..MaxBatchLen) \cup {-1} :
        IF n = -1
        THEN /\ Log(r, Unavailable)
             /\ hpc' = [hpc EXCEPT ![r] = "done"]
             /\ UNCHANGED <<hBatch, hN, batchEvents, gate>>
        ELSE /\ NewBatch(<<r, 0>>, Iota(n))
             /\ hBatch' = [hBatch EXCEPT ![r] = <<r, 0>>]
             /\ hN' = [hN EXCEPT ![r] = n]
             /\ hpc' = [hpc EXCEPT ![r] = "push"]
             /\ UNCHANGED resp
    /\ UNCHANGED <<keepalive, kaErr, hver, hKeep>>
    /\ UNCHANGED <<ch, held, pushed, pulled>>
    /\ UNCHANGED <<esVars, clientVars>>

\* serveBulk: h.ch <- batch, then the content and version headers
HttpEnqueue(r) ==
    /\ hpc[r] = "push"
    /\ Push(hBatch[r])
    /\ Log(r, <<Entry("hdr_content_type", 0), Entry("hdr_version", 0)>>)
    /\ hpc' = [hpc EXCEPT ![r] = "wait"]
    /\ UNCHANGED <<keepalive, kaErr, hver, hKeep, hBatch, hN>>
    /\ UNCHANGED <<batchEvents, gate, held, pulled>>
    /\ UNCHANGED <<esVars, clientVars>>

\* variant: the handler goes on to the ACK without waiting for the gate
HttpAwaitGate_NoGate(r) ==
    /\ hpc[r] = "wait"
    /\ ~hKeep[r]
    /\ hpc' = [hpc EXCEPT ![r] = "ack"]
    /\ UNCHANGED <<keepalive, kaErr, hver, hKeep, hBatch, hN, resp>>
    /\ UNCHANGED <<sharedVars, esVars, clientVars>>

\* serveBulk without keepalive: <-batch.Await()
HttpAwaitGate(r) ==
    /\ hpc[r] = "wait"
    /\ ~hKeep[r]
    /\ Await(hBatch[r])
    /\ hpc' = [hpc EXCEPT ![r] = "ack"]
    /\ UNCHANGED <<keepalive, kaErr, hver, hKeep, hBatch, hN, resp>>
    /\ UNCHANGED <<sharedVars, esVars, clientVars>>

\* variant: the loop ends without the gate having closed
HttpSelectGate_NoGate(r) ==
    /\ hpc[r] = "wait"
    /\ hKeep[r]
    /\ hpc' = [hpc EXCEPT ![r] = "ack"]
    /\ UNCHANGED <<keepalive, kaErr, hver, hKeep, hBatch, hN, resp>>
    /\ UNCHANGED <<ch, batchEvents, gate, held, pushed, pulled>>
    /\ UNCHANGED <<split, silent, epc, dpc, evs, metas, decoded, pipe,
                   pipeClosed, cur, first, body, estatus, ehdr, egz, handed, endReason>>
    /\ UNCHANGED clientVars

\* variant: the gate case does not set hasACK, the loop goes on
HttpSelectGate_NoExit(r) ==
    /\ hpc[r] = "wait"
    /\ hKeep[r]
    /\ Await(hBatch[r])
    /\ UNCHANGED <<keepalive, kaErr, hpc, hver, hKeep, hBatch, hN, resp>>
    /\ UNCHANGED <<sharedVars, esVars, clientVars>>

\* keepalive loop: case <-batch.Await(): hasACK = true
HttpSelectGate(r) ==
    /\ hpc[r] = "wait"
    /\ hKeep[r]
    /\ Await(hBatch[r])
    /\ hpc' = [hpc EXCEPT ![r] = "ack"]
    /\ UNCHANGED <<keepalive, kaErr, hver, hKeep, hBatch, hN, resp>>
    /\ UNCHANGED <<sharedVars, esVars, clientVars>>

\* chunkedACKWriter.Keepalive: what it adds to the response when the wrapped
\* writer's Keepalive returns err (failed) or nil
ChunkedKeepalive(failed) ==
    (IF failed THEN <<>> ELSE <<Entry("keepalive", 0)>>)
    \o (IF failed THEN <<Entry("flush", 0)>> ELSE <<>>)

\* variant: a failed keepalive leaves the loop (break) instead of returning
HttpSelectTimer_AckOnError(r) ==
    /\ hpc[r] = "wait"
    /\ hKeep[r]
    /\ CountKind(resp[r], "keepalive") < MaxKeepalives
    /\ \E failed \in BOOLEAN :
        /\ Log(r, ChunkedKeepalive(failed))
        /\ kaErr' = [kaErr EXCEPT ![r] = failed]
        /\ hpc' = [hpc EXCEPT ![r] = IF failed THEN "ack" ELSE "wait"]
    /\ UNCHANGED <<keepalive, hver, hKeep, hBatch, hN>>
    /\ UNCHANGED <<sharedVars, esVars, clientVars>>

\* keepalive loop: case <-time.After(h.opts.keepalive)
HttpSelectTimer(r) ==
    /\ hpc[r] = "wait"
    /\ hKeep[r]
    /\ CountKind(resp[r], "keepalive") < MaxKeepalives
    /\ \E failed \in BOOLEAN :
        /\ Log(r, ChunkedKeepalive(failed))
        /\ kaErr' = [kaErr EXCEPT ![r] = failed]
        /\ hpc' = [hpc EXCEPT ![r] = IF failed THEN "done" ELSE "wait"]
    /\ UNCHANGED <<keepalive, hver, hKeep, hBatch, hN>>
    /\ UNCHANGED <<sharedVars, esVars, clientVars>>

\* serveBulk: ljWriter.ACK(N)
HttpACK(r) ==
    /\ hpc[r] = "ack"
    /\ Log(r, <<Entry("ack", hN[r])>>)
    /\ hpc' = [hpc EXCEPT ![r] = "done"]
    /\ UNCHANGED <<keepalive, kaErr, hver, hKeep, hBatch, hN>>
    /\ UNCHANGED <<sharedVars, esVars, clientVars>>

HttpStep(r) ==
    \/ HttpDispatch(r)
    \/ HttpMakeCodec(r)
    \/ HttpReadBatch(r)
    \/ HttpEnqueue(r)
    \/ HttpAwaitGate(r)
    \/ HttpSelectGate(r)
    \/ HttpSelectTimer(r)
    \/ HttpACK(r)

\* ------------------------------------------------------------ initial state
InitShared ==
    /\ ch = <<>>
    /\ batchEvents = <<>>
    /\ gate = <<>>
    /\ held = {}
    /\ pushed = <<>>
    /\ pulled = <<>>

InitHttpVars ==
    /\ hpc = [r \in HReqs |-> "start"]
    /\ hver = [r \in HReqs |-> ""]
    /\ kaErr = [r \in HReqs |-> FALSE]
    /\ hKeep = [r \in HReqs |-> FALSE]
    /\ hBatch = [r \in HReqs |-> NoBatch]
    /\ hN = [r \in HReqs |-> 0]
    /\ resp = [r \in HReqs |-> <<>>]

InitEsVars ==
    /\ epc = [r \in EReqs |-> "start"]
    /\ dpc = [r \in EReqs |-> "none"]
    /\ evs = [r \in EReqs |-> <<>>]
    /\ metas = [r \in EReqs |-> <<>>]
    /\ decoded = [r \in EReqs |-> 0]
    /\ pipe = [r \in EReqs |-> <<>>]
    /\ pipeClosed = [r \in EReqs |-> FALSE]
    /\ cur = [r \in EReqs |-> [batch |-> NoBatch, meta |-> <<>>]]
    /\ first = [r \in EReqs |-> TRUE]
    /\ body = [r \in EReqs |-> <<>>]
    /\ estatus = [r \in EReqs |-> 0]
    /\ ehdr = [r \in EReqs |-> {}]
    /\ egz = [r \in EReqs |-> "none"]
    /\ handed = [r \in EReqs |-> <<>>]
    /\ endReason = [r \in EReqs |-> "none"]

\* NewHTTPClient: an empty buffer, no response, an empty canceler
InitClientVars ==
    /\ cbuf = 0
    /\ cresp = 0
    /\ canceler = 0
    /\ cpc = "idle"
    /\ closePc = "idle"
    /\ nresp = 0
    /\ rleft = <<>>
    /\ rclosed = <<>>
    /\ cops = 0
    /\ lastOp = "none"
    /\ lastErr = "nil"
    /\ lastN = 0
    /\ lastFrom = 0
    /\ lastEof = FALSE

\* servers of the version-dispatching handler only
InitHttp ==
    /\ InitShared /\ InitHttpVars /\ InitEsVars /\ InitClientVars
    /\ keepalive \in KeepaliveOpts
    /\ split = 1
    /\ silent = FALSE

NextHttp ==
    \/ \E r \in HReqs : HttpStep(r)
    \/ Consumer

SpecHttp == InitHttp /\ [][NextHttp]_vars

\* ---------------------------------------------------- ES-bulk adapter
NoInfo == [batch |-> NoBatch, meta |-> <<>>]

BodyEntry(kind, group, comma) == [k |-> kind, n |-> group, c |-> comma]

Write(r, entries) == body' = [body EXCEPT ![r] = body[r] \o entries]

\* what one pass of the decode loop can meet: end of input, a metadata line
\* or a source line that fails to decode, a source line that decodes to a nil
\* map (JSON null), or a pair that decodes
DecodeOutcomes == {"eof", "badmeta", "badsrc", "nullsrc", "pair"}

\* variant: the group is handed off one event late
CapOf_OneLate(s) == s + 1

\* cap(events) of make([]interface{}, 0, h.split)
CapOf(s) == s

\* variant: a hand-off that never blocks (an unbounded pipeline)
HandOff_NoLimit(r) ==
    LET b == <<r, Len(handed[r]) + 1>> IN
    /\ NewBatch(b, evs[r])
    /\ pipe' = [pipe EXCEPT ![r] = Append(pipe[r], [batch |-> b, meta |-> metas[r]])]
    /\ handed' = [handed EXCEPT ![r] = Append(handed[r], b)]
    /\ evs' = [evs EXCEPT ![r] = <<>>]
    /\ metas' = [metas EXCEPT ![r] = <<>>]

\* batches <- info{lj.NewBatch(events), metas}, then fresh metas and events
HandOff(r) ==
    LET b == <<r, Len(handed[r]) + 1>> IN
    /\ Len(pipe[r]) < PipeCap
    /\ NewBatch(b, evs[r])
    /\ pipe' = [pipe EXCEPT ![r] = Append(pipe[r], [batch |-> b, meta |-> metas[r]])]
    /\ handed' = [handed EXCEPT ![r] = Append(handed[r], b)]
    /\ evs' = [evs EXCEPT ![r] = <<>>]
    /\ metas' = [metas EXCEPT ![r] = <<>>]

\* defer gz.Close(): runs when serveBulk returns or panics
GzClose(r) ==
    egz' = [egz EXCEPT ![r] = IF egz[r] = "open" THEN "closed" ELSE egz[r]]

\* serveBulk: the response writer and the request reader (gzip check)
EsStart(r) ==
    /\ epc[r] = "start"
    /\ \E acceptGzip \in BOOLEAN, requGzip \in {"none", "ok", "bad"} :
        LET enc == IF acceptGzip THEN {"Content-Encoding"} ELSE {} IN
        IF requGzip = "bad"
        THEN /\ estatus' = [estatus EXCEPT ![r] = 400]
             /\ ehdr' = [ehdr EXCEPT ![r] = enc \cup {"Content-Type: text/plain"}]
             /\ Write(r, <<BodyEntry("error", 0, FALSE)>>)
             /\ egz' = [egz EXCEPT ![r] = IF acceptGzip THEN "closed" ELSE "none"]
             /\ epc' = [epc EXCEPT ![r] = "rejected"]
        ELSE /\ ehdr' = [ehdr EXCEPT ![r] = enc]
             /\ egz' = [egz EXCEPT ![r] = IF acceptGzip THEN "open" ELSE "none"]
             /\ epc' = [epc EXCEPT ![r] = "open"]
             /\ UNCHANGED <<estatus, body>>
    /\ UNCHANGED <<split, silent, dpc, evs, metas, decoded, pipe, pipeClosed,
                   cur, first, handed, endReason>>
    /\ UNCHANGED <<sharedVars, httpVars, clientVars>>

\* serveBulk: Content-Type, status 200, the opening of the array, start of
\* the drain task
EsOpen(r) ==
    /\ epc[r] = "open"
    /\ ehdr' = [ehdr EXCEPT ![r] = ehdr[r] \cup {"Content-Type: application/json"}]
    /\ estatus' = [estatus EXCEPT ![r] = 200]
    /\ Write(r, <<BodyEntry("open", 0, FALSE)>>)
    /\ dpc' = [dpc EXCEPT ![r] = "recv"]
    /\ epc' = [epc EXCEPT ![r] = "decode"]
    /\ UNCHANGED <<split, silent, evs, metas, decoded, pipe, pipeClosed,
                   cur, first, egz, handed, endReason>>
    /\ UNCHANGED <<sharedVars, httpVars, clientVars>>

\* one pass of the decode loop, up to the hand-off of a full group
EsDecode(r) ==
    /\ epc[r] = "decode"
    /\ \E o \in DecodeOutcomes :
        \/ /\ o \in {"eof", "badmeta", "badsrc"}
           /\ endReason' = [endReason EXCEPT ![r] = o]
           /\ epc' = [epc EXCEPT ![r] = "flush"]
           /\ UNCHANGED <<evs, metas, decoded, egz>>
        \/ /\ o = "nullsrc"
           /\ endReason' = [endReason EXCEPT ![r] = "panic"]
           /\ epc' = [epc EXCEPT ![r] = "panicked"]
           /\ GzClose(r)
           /\ UNCHANGED <<evs, metas, decoded>>
        \/ /\ o = "pair"
           /\ decoded[r] < MaxEvents
           /\ decoded' = [decoded EXCEPT ![r] = decoded[r] + 1]
           /\ evs' = [evs EXCEPT ![r] = Append(evs[r], decoded[r] + 1)]
           /\ metas' = [metas EXCEPT ![r] = Append(metas[r], decoded[r] + 1)]
           /\ epc' = [epc EXCEPT ![r] =
                         IF Len(evs[r]) + 1 = CapOf(split)
                         THEN "handoff" ELSE "decode"]
           /\ UNCHANGED <<endReason, egz>>
    /\ UNCHANGED <<split, silent, dpc, pipe, pipeClosed, cur, first, body,
                   estatus, ehdr, handed>>
    /\ UNCHANGED <<sharedVars, httpVars, clientVars>>

\* decode loop: the full group goes to the pipeline
EsHandoff(r) ==
    /\ epc[r] = "handoff"
    /\ HandOff(r)
    /\ epc' = [epc EXCEPT ![r] = "decode"]
    /\ UNCHANGED <<split, silent, dpc, decoded, pipeClosed, cur, first, body,
                   estatus, ehdr, egz, endReason>>
    /\ UNCHANGED <<ch, held, pushed, pulled>>
    /\ UNCHANGED <<httpVars, clientVars>>

\* variant: the residual group is flushed only when the input ended cleanly
HasResidual_OnlyAtEof(r) == Len(evs[r]) > 0 /\ endReason[r] = "eof"

\* if len(events) > 0
HasResidual(r) == Len(evs[r]) > 0

\* after the loop: the residual group goes to the pipeline
EsFlush(r) ==
    /\ epc[r] = "flush"
    /\ \/ /\ HasResidual(r)
          /\ HandOff(r)
          /\ UNCHANGED <<ch, held, pushed, pulled>>
       \/ /\ ~HasResidual(r)
          /\ UNCHANGED <<evs, metas, pipe, handed>>
          /\ UNCHANGED sharedVars
    /\ epc' = [epc EXCEPT ![r] = "close"]
    /\ UNCHANGED <<split, silent, dpc, decoded, pipeClosed, cur, first, body,
                   estatus, ehdr, egz, endReason>>
    /\ UNCHANGED <<httpVars, clientVars>>

\* close(batches)
EsClose(r) ==
    /\ epc[r] = "close"
    /\ pipeClosed' = [pipeClosed EXCEPT ![r] = TRUE]
    /\ epc' = [epc EXCEPT ![r] = "wait"]
    /\ UNCHANGED <<split, silent, dpc, evs, metas, decoded, pipe, cur, first,
                   body, estatus, ehdr, egz, handed, endReason>>
    /\ UNCHANGED <<sharedVars, httpVars, clientVars>>

\* wg.Wait()
EsWait(r) ==
    /\ epc[r] = "wait"
    /\ dpc[r] = "exited"
    /\ epc' = [epc EXCEPT ![r] = "term"]
    /\ UNCHANGED <<split, silent, dpc, evs, metas, decoded, pipe, pipeClosed,
                   cur, first, body, estatus, ehdr, egz, handed, endReason>>
    /\ UNCHANGED <<sharedVars, httpVars, clientVars>>

\* writer.Write([]byte("]}")), return
EsTerminator(r) ==
    /\ epc[r] = "term"
    /\ Write(r, <<BodyEntry("term", 0, FALSE)>>)
    /\ GzClose(r)
    /\ epc' = [epc EXCEPT ![r] = "done"]
    /\ UNCHANGED <<split, silent, dpc, evs, metas, decoded, pipe, pipeClosed,
                   cur, first, estatus, ehdr, handed, endReason>>
    /\ UNCHANGED <<sharedVars, httpVars, clientVars>>

\* variant: the drain task takes the newest waiting group
DrainRecv_Newest(r) ==
    /\ dpc[r] = "recv"
    /\ \/ /\ pipe[r] # <<>>
          /\ cur' = [cur EXCEPT ![r] = pipe[r][Len(pipe[r])]]
          /\ pipe' = [pipe EXCEPT ![r] = SubSeq(pipe[r], 1, Len(pipe[r]) - 1)]
          /\ dpc' = [dpc EXCEPT ![r] = "push"]
       \/ /\ pipe[r] = <<>>
          /\ pipeClosed[r]
          /\ dpc' = [dpc EXCEPT ![r] = "exited"]
          /\ UNCHANGED <<cur, pipe>>
    /\ UNCHANGED <<split, silent, epc, evs, metas, decoded, pipeClosed, first,
                   body, estatus, ehdr, egz, handed, endReason>>
    /\ UNCHANGED <<sharedVars, httpVars, clientVars>>

\* drain task: for info := range batches
DrainRecv(r) ==
    /\ dpc[r] = "recv"
    /\ \/ /\ pipe[r] # <<>>
          /\ cur' = [cur EXCEPT ![r] = Head(pipe[r])]
          /\ pipe' = [pipe EXCEPT ![r] = Tail(pipe[r])]
          /\ dpc' = [dpc EXCEPT ![r] = "push"]
       \/ /\ pipe[r] = <<>>
          /\ pipeClosed[r]
          /\ dpc' = [dpc EXCEPT ![r] = "exited"]
          /\ UNCHANGED <<cur, pipe>>
    /\ UNCHANGED <<split, silent, epc, evs, metas, decoded, pipeClosed, first,
                   body, estatus, ehdr, egz, handed, endReason>>
    /\ UNCHANGED <<sharedVars, httpVars, clientVars>>

\* where the drain task goes after h.ch <- batch: the two continue statements
AfterPush(r) ==
    IF silent THEN "recv"
    ELSE IF Len(cur[r].meta) = 0 THEN "recv"
    ELSE "write"

\* drain task: h.ch <- batch
DrainPush(r) ==
    /\ dpc[r] = "push"
    /\ Push(cur[r].batch)
    /\ dpc' = [dpc EXCEPT ![r] = AfterPush(r)]
    /\ UNCHANGED <<split, silent, epc, evs, metas, decoded, pipe, pipeClosed,
                   cur, first, body, estatus, ehdr, egz, handed, endReason>>
    /\ UNCHANGED <<batchEvents, gate, held, pulled>>
    /\ UNCHANGED <<httpVars, clientVars>>

\* the status entries of a group of n events: the first entry of the
\* response is unprefixed, every other starts with a comma
StatusEntries(group, n, isFirst) ==
    [i \in 1..n |-> BodyEntry("item", group, ~(isFirst /\ i = 1))]

\* drain task: the status writes of the group
DrainWrite(r) ==
    /\ dpc[r] = "write"
    /\ Write(r, StatusEntries(cur[r].batch[2], Len(cur[r].meta), first[r]))
    /\ first' = [first EXCEPT ![r] = FALSE]
    /\ dpc' = [dpc EXCEPT ![r] = "await"]
    /\ UNCHANGED <<split, silent, epc, evs, metas, decoded, pipe, pipeClosed,
                   cur, estatus, ehdr, egz, handed, endReason>>
    /\ UNCHANGED <<sharedVars, httpVars, clientVars>>

\* variant: the drain task goes to the next group without waiting
DrainAwait_NoGate(r) ==
    /\ dpc[r] = "await"
    /\ dpc' = [dpc EXCEPT ![r] = "recv"]
    /\ UNCHANGED <<split, silent, epc, evs, metas, decoded, pipe, pipeClosed,
                   cur, first, body, estatus, ehdr, egz, handed, endReason>>
    /\ UNCHANGED <<sharedVars, httpVars, clientVars>>

\* drain task: <-batch.Await()
DrainAwait(r) ==
    /\ dpc[r] = "await"
    /\ Await(cur[r].batch)
    /\ dpc' = [dpc EXCEPT ![r] = "recv"]
    /\ UNCHANGED <<split, silent, epc, evs, metas, decoded, pipe, pipeClosed,
                   cur, first, body, estatus, ehdr, egz, handed, endReason>>
    /\ UNCHANGED <<sharedVars, httpVars, clientVars>>

EsStep(r) ==
    \/ EsStart(r)
    \/ EsOpen(r)
    \/ EsDecode(r)
    \/ EsHandoff(r)
    \/ EsFlush(r)
    \/ EsClose(r)
    \/ EsWait(r)
    \/ EsTerminator(r)
    \/ DrainRecv(r)
    \/ DrainPush(r)
    \/ DrainWrite(r)
    \/ DrainAwait(r)

\* servers of the ES-bulk adapter only
InitES ==
    /\ InitShared /\ InitHttpVars /\ InitEsVars /\ InitClientVars
    /\ keepalive = 0
    /\ split \in 1..MaxSplit
    /\ silent \in BOOLEAN

NextES ==
    \/ \E r \in EReqs : EsStep(r)
    \/ Consumer

SpecES == InitES /\ [][NextES]_vars

\* two version-handler requests under the scheduling the runtime gives: a
\* goroutine that can run does run (the wait on a closed gate, the select
\* with a closed gate, the ACK write), and the consumer keeps pulling and
\* completing
LiveHReqs == {"h1", "h2"}

NextHttpLive ==
    \/ \E r \in LiveHReqs : HttpStep(r)
    \/ Consumer

FairHttp ==
    /\ WF_vars(Receive)
    /\ WF_vars(Complete)
    /\ \A r \in LiveHReqs :
        /\ WF_vars(HttpAwaitGate(r))
        /\ WF_vars(HttpSelectGate(r))
        /\ WF_vars(HttpACK(r))

SpecHttpLive == InitHttp /\ [][NextHttpLive]_vars /\ FairHttp

\* one version-handler request and the ES-bulk requests, served by two
\* servers that share one ingestion channel (the Channel option); the ES
\* server is not silent
MixedHReqs == {"h1"}

InitMixed ==
    /\ InitShared /\ InitHttpVars /\ InitEsVars /\ InitClientVars
    /\ keepalive \in KeepaliveOpts
    /\ split \in 1..MaxSplit
    /\ silent = FALSE

NextMixed ==
    \/ \E r \in MixedHReqs : HttpStep(r)
    \/ \E r \in EReqs : EsStep(r)
    \/ Consumer

SpecMixed == InitMixed /\ [][NextMixed]_vars

\* ------------------------------------------------- HTTP push client
serverVars == <<sharedVars, httpVars, esVars>>

Called(op) ==
    /\ cops < MaxClientOps
    /\ cops' = cops + 1
    /\ lastOp' = op

\* httpConn.Reset
ConnReset ==
    /\ cpc = "idle"
    /\ Called("reset")
    /\ cbuf' = 0
    /\ UNCHANGED <<cresp, canceler, cpc, closePc, nresp, rleft, rclosed,
                   lastErr, lastN, lastFrom, lastEof>>
    /\ UNCHANGED serverVars

\* httpConn.Write
ConnWrite ==
    /\ cpc = "idle"
    /\ cbuf < MaxBuf
    /\ Called("write")
    /\ cbuf' = cbuf + 1
    /\ UNCHANGED <<cresp, canceler, cpc, closePc, nresp, rleft, rclosed,
                   lastErr, lastN, lastFrom, lastEof>>
    /\ UNCHANGED serverVars

\* httpConn.Push up to c.http.Do(requ): http.NewRequest fails, or the
\* request is in flight with requ.Cancel = c.canceler
ConnPush ==
    /\ cpc = "idle"
    /\ Called("push")
    /\ \E requOk \in BOOLEAN :
        IF requOk
        THEN /\ cpc' = "inflight"
             /\ UNCHANGED lastErr
        ELSE /\ lastErr' = "err"
             /\ UNCHANGED cpc
    /\ UNCHANGED <<cbuf, cresp, canceler, closePc, nresp, rleft, rclosed,
                   lastN, lastFrom, lastEof>>
    /\ UNCHANGED serverVars

\* httpConn.Push from the return of c.http.Do: an error, a status other than
\* 200, or a response with status 200 that becomes c.resp
ConnPushReturn ==
    /\ cpc = "inflight"
    /\ cpc' = "idle"
    /\ \E outcome \in {"doerr", "status", "ok"}, rest \in 0..cbuf,
          len \in 0..MaxBody :
        /\ cbuf' = rest
        /\ IF outcome = "ok"
           THEN /\ nresp' = nresp + 1
                /\ cresp' = nresp + 1
                /\ rleft' = Append(rleft, len)
                /\ rclosed' = Append(rclosed, 0)
                /\ lastErr' = "nil"
           ELSE /\ lastErr' = "err"
                /\ UNCHANGED <<nresp, cresp, rleft, rclosed>>
    /\ UNCHANGED <<canceler, closePc, cops, lastOp, lastN, lastFrom, lastEof>>
    /\ UNCHANGED serverVars

\* the request in flight receives from requ.Cancel and c.http.Do fails
ConnPushCancelled ==
    /\ cpc = "inflight"
    /\ canceler > 0
    /\ canceler' = canceler - 1
    /\ cpc' = "idle"
    /\ lastErr' = "err"
    /\ \E rest \in 0..cbuf : cbuf' = rest
    /\ UNCHANGED <<cresp, closePc, nresp, rleft, rclosed, cops, lastOp,
                   lastN, lastFrom, lastEof>>
    /\ UNCHANGED serverVars

\* variant: at io.EOF the body is closed but c.resp is not cleared
ConnRead_KeepResp ==
    /\ cpc = "idle"
    /\ Called("read")
    /\ IF cresp = 0
       THEN /\ lastErr' = "noresp"
            /\ lastN' = 0
            /\ lastFrom' = 0
            /\ lastEof' = FALSE
            /\ UNCHANGED <<cresp, rleft, rclosed>>
       ELSE \E n \in 0..rleft[cresp], res \in {"more", "eof", "err"} :
            /\ res = "eof" => n = rleft[cresp]
            /\ rleft' = [rleft EXCEPT ![cresp] = rleft[cresp] - n]
            /\ lastN' = n
            /\ lastFrom' = cresp
            /\ lastEof' = (res = "eof")
            /\ lastErr' = IF res = "err" THEN "err" ELSE "nil"
            /\ rclosed' = IF res = "eof"
                          THEN [rclosed EXCEPT ![cresp] = rclosed[cresp] + 1]
                          ELSE rclosed
            /\ UNCHANGED cresp
    /\ UNCHANGED <<cbuf, canceler, cpc, closePc, nresp>>
    /\ UNCHANGED serverVars

\* httpConn.Read
ConnRead ==
    /\ cpc = "idle"
    /\ Called("read")
    /\ IF cresp = 0
       THEN /\ lastErr' = "noresp"
            /\ lastN' = 0
            /\ lastFrom' = 0
            /\ lastEof' = FALSE
            /\ UNCHANGED <<cresp, rleft, rclosed>>
       ELSE \E n \in 0..rleft[cresp], res \in {"more", "eof", "err"} :
            /\ res = "eof" => n = rleft[cresp]
            /\ rleft' = [rleft EXCEPT ![cresp] = rleft[cresp] - n]
            /\ lastN' = n
            /\ lastFrom' = cresp
            /\ lastEof' = (res = "eof")
            /\ lastErr' = IF res = "err" THEN "err" ELSE "nil"
            /\ rclosed' = IF res = "eof"
                          THEN [rclosed EXCEPT ![cresp] = rclosed[cresp] + 1]
                          ELSE rclosed
            /\ cresp' = IF res = "eof" THEN 0 ELSE cresp
    /\ UNCHANGED <<cbuf, canceler, cpc, closePc, nresp>>
    /\ UNCHANGED serverVars

\* httpConn.Close is called
ConnClose ==
    /\ closePc = "idle"
    /\ Called("close")
    /\ closePc' = "send"
    /\ UNCHANGED <<cbuf, cresp, canceler, cpc, nresp, rleft, rclosed,
                   lastErr, lastN, lastFrom, lastEof>>
    /\ UNCHANGED serverVars

\* httpConn.Close: c.canceler <- struct{}{}, return nil
ConnCloseSend ==
    /\ closePc = "send"
    /\ canceler < CancelCap
    /\ canceler' = canceler + 1
    /\ closePc' = "idle"
    /\ UNCHANGED <<cbuf, cresp, cpc, nresp, rleft, rclosed, cops, lastOp,
                   lastErr, lastN, lastFrom, lastEof>>
    /\ UNCHANGED serverVars

\* a client connection on its own
InitClient ==
    /\ InitShared /\ InitHttpVars /\ InitEsVars /\ InitClientVars
    /\ keepalive = 0
    /\ split = 1
    /\ silent = FALSE

NextClient ==
    \/ ConnReset
    \/ ConnWrite
    \/ ConnPush
    \/ ConnPushReturn
    \/ ConnPushCancelled
    \/ ConnRead
    \/ ConnClose
    \/ ConnCloseSend

SpecClient == InitClient /\ [][NextClient]_vars

\* ------------------------------------------------------------------ claims
Last(s) == s[Len(s)]

OfRequest(s, r) == SelectSeq(s, LAMBDA b : b[1] = r)

\* events of the groups of request r, in the order the groups were handed on
HandedEvents(r) ==
    Concat([i \in 1..Len(handed[r]) |-> batchEvents[handed[r][i]]])

GroupSizes(r) ==
    [i \in 1..Len(handed[r]) |-> Len(batchEvents[handed[r][i]])]

\* sizes s, s, ..., s, (n mod s if non-zero)
ExpectedSizes(n, s) ==
    [i \in 1..((n + s - 1) \div s) |-> IF i * s <= n THEN s ELSE n % s]

AckIndices(r) == {i \in 1..Len(resp[r]) : resp[r][i].k = "ack"}

\* C1: for every POST to the version-dispatching handler the final ACK frame
\* is written at most once, only after the request's batch has been enqueued
\* and its gate has closed, it carries the number of events of that batch,
\* and no keepalive frame follows it.
C1_FinalAck ==
    \A r \in HReqs :
        /\ Cardinality(AckIndices(r)) <= 1
        /\ \A i \in AckIndices(r) :
            /\ hBatch[r] \in Range(pushed)
            /\ gate[hBatch[r]] = "closed"
            /\ resp[r][i].n = Len(batchEvents[hBatch[r]])
            /\ \A j \in (i + 1)..Len(resp[r]) : resp[r][j].k # "keepalive"

\* a request with keepalive wrote a keepalive frame and then ACK(1)
C1_Witness ==
    \E r \in HReqs :
        /\ hKeep[r]
        /\ CountKind(resp[r], "keepalive") > 0
        /\ resp[r] # <<>>
        /\ Last(resp[r]) = Entry("ack", 1)

\* C2: in non-silent mode every status entry of a group is written after the
\* group's batch was enqueued and only once that batch's gate has closed.
C2_StatusAfterGate ==
    \A r \in EReqs :
        \A i \in 1..Len(body[r]) :
            body[r][i].k = "item" =>
                /\ <<r, body[r][i].n>> \in Range(pushed)
                /\ gate[<<r, body[r][i].n>>] = "closed"

\* C3: every keepalive frame the decorator wrote is followed by a flush of
\* the response before the handler waits again.
C3_KeepaliveFlushed ==
    \A r \in HReqs :
        \A i \in 1..Len(resp[r]) :
            resp[r][i].k = "keepalive" =>
                /\ i < Len(resp[r])
                /\ resp[r][i + 1].k = "flush"

\* C4: in silent mode the terminator is written only after every batch of
\* the request has been completed by the consumer.
C4_SilentWaits ==
    \A r \in EReqs :
        (silent /\ CountKind(body[r], "term") > 0) =>
            \A i \in 1..Len(handed[r]) : gate[handed[r][i]] = "closed"

\* C5: a completed ES-bulk request with n decoded pairs and split s formed
\* batches of sizes s, ..., s, (n mod s if non-zero), enqueued in that order,
\* whose concatenation is the input in input order; in non-silent mode the
\* response holds exactly n status entries.
C5_Groups ==
    \A r \in EReqs :
        epc[r] = "done" =>
            /\ GroupSizes(r) = ExpectedSizes(decoded[r], split)
            /\ HandedEvents(r) = Iota(decoded[r])
            /\ OfRequest(pushed, r) = handed[r]
            /\ ~silent => CountKind(body[r], "item") = decoded[r]

\* split 2 and 5 events: groups of 2, 2 and 1, and 5 status entries
C5_Witness ==
    \E r \in EReqs :
        /\ epc[r] = "done"
        /\ ~silent
        /\ split = 2
        /\ decoded[r] = 5
        /\ GroupSizes(r) = <<2, 2, 1>>
        /\ CountKind(body[r], "item") = 5

\* C6: the channel never holds more than its capacity, and while it is full
\* a handler at its push stays there, its response untouched, unless the
\* step is a pull by the consumer.
C6_Backpressure ==
    /\ [](Len(ch) <= ChanCap)
    /\ [][\A r \in HReqs :
            (hpc[r] = "push" /\ Len(ch) = ChanCap) =>
                \/ Len(ch') < Len(ch)
                \/ (hpc'[r] = "push" /\ resp'[r] = resp[r])]_vars

\* the channel is full and a handler is blocked at its push, nothing written
C6_Witness ==
    /\ Len(ch) = ChanCap
    /\ \E r \in HReqs : hpc[r] = "push" /\ resp[r] = <<>>

\* C7: batches are pulled in the order their pushes completed, each at most
\* once: the pulled batches followed by the queued ones are the pushed ones.
C7_Fifo ==
    /\ pushed = pulled \o ch
    /\ \A i, j \in 1..Len(pulled) : pulled[i] = pulled[j] => i = j

\* one batch was pulled while two of other requests were queued behind it
C7_Witness ==
    /\ Len(pulled) >= 1
    /\ Len(ch) >= 2
    /\ ch[1][1] # ch[2][1]

\* C8: a request whose version header is missing or names an unsupported
\* version is answered with status 400 and nothing else, reads no batch and
\* enqueues none.
C8_BadVersion ==
    \A r \in HReqs :
        (hpc[r] # "start" /\ hver[r] \notin SupportedVersions) =>
            /\ hpc[r] = "done"
            /\ resp[r] = <<Entry("status", 400)>>
            /\ hBatch[r] = NoBatch
            /\ OfRequest(pushed, r) = <<>>
            /\ OfRequest(ch, r) = <<>>

\* an unsupported version and a missing header were both answered 400 while
\* another request's batch sits in the channel
C8_Witness ==
    \E r1, r2 \in HReqs :
        /\ hpc[r1] = "done" /\ hver[r1] = "1.0"
        /\ hpc[r2] = "done" /\ hver[r2] = ""
        /\ resp[r1] = <<Entry("status", 400)>>
        /\ resp[r2] = <<Entry("status", 400)>>
        /\ ch # <<>>

\* C9: once the decode loop has ended, by end of input or by a decode error,
\* and the residual group was handled, the batches handed to the pipeline
\* hold every decoded event exactly once, in input order.
C9_NoEventLost ==
    \A r \in EReqs :
        epc[r] \in {"close", "wait", "term", "done"} =>
            HandedEvents(r) = Iota(decoded[r])

\* a source line failed to decode after 3 pairs with split 2: the residual
\* group of one event was flushed as the second batch
C9_Witness ==
    \E r \in EReqs :
        /\ epc[r] = "done"
        /\ endReason[r] = "badsrc"
        /\ split = 2
        /\ decoded[r] = 3
        /\ GroupSizes(r) = <<2, 1>>

\* C10: a handler that has ended after passing the gzip check wrote the
\* opening exactly once, first, and the terminator exactly once, last.
C10_AlwaysClosed ==
    \A r \in EReqs :
        epc[r] \in {"done", "panicked"} =>
            /\ body[r] # <<>>
            /\ Head(body[r]).k = "open"
            /\ Last(body[r]).k = "term"
            /\ CountKind(body[r], "open") = 1
            /\ CountKind(body[r], "term") = 1

\* C11: a gate is closed exactly when the consumer has completed its batch
\* (pulled it and no longer holds it), a closed gate never opens again, and
\* the version handler and the ES drain task leave their wait on a gate only
\* when it is closed.
C11_Gate ==
    /\ [](\A b \in DOMAIN gate :
            gate[b] = "closed" <=> (b \in Range(pulled) /\ b \notin held))
    /\ [][\A b \in DOMAIN gate : gate[b] = "closed" => gate'[b] = "closed"]_vars
    /\ [][\A r \in HReqs :
            (hpc[r] = "wait" /\ hpc'[r] = "ack") =>
                gate[hBatch[r]] = "closed"]_vars
    /\ [][\A r \in EReqs :
            (dpc[r] = "await" /\ dpc'[r] # "await") =>
                gate[cur[r].batch] = "closed"]_vars

\* both kinds of handler have passed their wait: the version handler wrote
\* its ACK without keepalive and the drain task finished two groups
C11_Witness ==
    /\ \E r \in HReqs : ~hKeep[r] /\ hpc[r] = "done" /\ AckIndices(r) # {}
    /\ \E r \in EReqs : dpc[r] = "exited" /\ Len(handed[r]) = 2
                        /\ \A i \in 1..2 : gate[handed[r][i]] = "closed"

\* C13: the handler task writes to the response only while the drain task
\* is not running (not started, or finished), and every other write is made
\* by the drain task at its status writes.
C13_SingleWriter ==
    [][\A r \in EReqs :
        /\ ((body'[r] # body[r] /\ epc'[r] # epc[r])
              \/ (egz[r] = "open" /\ egz'[r] = "closed")) =>
                dpc[r] \in {"none", "exited"}
        /\ (body'[r] # body[r] /\ epc'[r] = epc[r]) => dpc[r] = "write"]_vars

\* C14: the batches of a request are enqueued in the order the groups were
\* formed, and the status entries appear in the response in that order.
C14_FormationOrder ==
    \A r \in EReqs :
        /\ \A i \in 1..Len(handed[r]) : handed[r][i] = <<r, i>>
        /\ Len(OfRequest(pushed, r)) <= Len(handed[r])
        /\ OfRequest(pushed, r) =
               SubSeq(handed[r], 1, Len(OfRequest(pushed, r)))
        /\ \A i, j \in 1..Len(body[r]) :
              (i < j /\ body[r][i].k = "item" /\ body[r][j].k = "item") =>
                  body[r][i].n <= body[r][j].n

\* the version handler's batch was enqueued between two batches of the ES
\* request and completed last, and the entries of groups 1 and 2 are written
C14_Witness ==
    \E r \in EReqs, h \in HReqs :
        /\ Len(pushed) = 3
        /\ pushed = <<<<r, 1>>, <<h, 0>>, <<r, 2>>>>
        /\ gate[<<r, 2>>] = "closed"
        /\ gate[<<h, 0>>] = "open"
        /\ \E i \in 1..Len(body[r]) : body[r][i] = BodyEntry("item", 2, TRUE)

\* C15: after a failed keepalive write the handler has ended with no ACK
\* frame; the failure leaves the channel and the gate as they were, the
\* batch leaves the channel only by a pull, and once pulled it can still be
\* completed.
C15_KeepaliveFailure ==
    /\ [](\A r \in HReqs :
            kaErr[r] =>
                /\ hpc[r] = "done"
                /\ AckIndices(r) = {}
                /\ hBatch[r] \in Range(ch) \cup Range(pulled)
                /\ hBatch[r] \in held => gate[hBatch[r]] = "open")
    /\ [][\A r \in HReqs :
            (~kaErr[r] /\ kaErr'[r]) => (ch' = ch /\ gate' = gate)]_vars
    /\ [][\A r \in HReqs :
            (kaErr[r] /\ hBatch[r] \in Range(ch) /\ hBatch[r] \notin Range(ch')) =>
                pulled' = Append(pulled, hBatch[r])]_vars

\* the batch of a request whose keepalive failed was pulled and completed
C15_Witness ==
    \E r \in HReqs :
        /\ kaErr[r]
        /\ hBatch[r] \in Range(pulled)
        /\ gate[hBatch[r]] = "closed"

\* C16: a request enqueues at most one batch; a batch is enqueued only if
\* version lookup, codec construction and ReadBatch succeeded, and is
\* enqueued once the handler is past its push; the headers and every
\* keepalive or ACK frame come after the enqueue; a codec or ReadBatch
\* failure is answered 503 with nothing enqueued.
C16_OneBatch ==
    \A r \in HReqs :
        /\ Len(OfRequest(pushed, r)) <= 1
        /\ OfRequest(pushed, r) # <<>> =>
              /\ hver[r] \in SupportedVersions
              /\ hBatch[r] # NoBatch
              /\ OfRequest(pushed, r) = <<hBatch[r]>>
              /\ resp[r] # <<>> => resp[r][1].k # "status"
        /\ (hBatch[r] # NoBatch /\ hpc[r] # "push") =>
              OfRequest(pushed, r) # <<>>
        /\ (resp[r] # <<>> /\ resp[r][1].k # "status") =>
              OfRequest(pushed, r) # <<>>
        /\ (hpc[r] = "done" /\ hver[r] \in SupportedVersions
              /\ OfRequest(pushed, r) = <<>>) =>
              resp[r] = Unavailable

\* one request was answered 503 with nothing enqueued, another enqueued its
\* batch and then set its headers
C16_Witness ==
    \E r1, r2 \in HReqs :
        /\ resp[r1] = Unavailable /\ hBatch[r1] = NoBatch
        /\ OfRequest(pushed, r2) = <<hBatch[r2]>>
        /\ resp[r2] # <<>> /\ resp[r2][1].k = "hdr_content_type"

\* C18: the pipeline never holds more than 2 groups, and while it holds 2 a
\* handler at the hand-off of a full group stays there and decodes nothing
\* unless the step is the drain task taking a group.
C18_Lookahead ==
    /\ [](\A r \in EReqs : Len(pipe[r]) <= PipeCap)
    /\ [][\A r \in EReqs :
            (epc[r] = "handoff" /\ Len(pipe[r]) = PipeCap) =>
                \/ Len(pipe'[r]) < Len(pipe[r])
                \/ (epc'[r] = "handoff" /\ decoded'[r] = decoded[r]
                      /\ handed'[r] = handed[r])]_vars

\* two groups wait in the pipeline and the handler is blocked at the
\* hand-off of a third
C18_Witness ==
    \E r \in EReqs : Len(pipe[r]) = PipeCap /\ epc[r] = "handoff"

\* C19: in non-silent mode at most one batch of a request is enqueued with
\* its gate still open.
C19_OneOutstanding ==
    \A r \in EReqs :
        ~silent =>
            Cardinality({i \in 1..Len(handed[r]) :
                            /\ handed[r][i] \in Range(pushed)
                            /\ gate[handed[r][i]] = "open"}) <= 1

\* the second batch of a request is enqueued and open, the first is closed
C19_Witness ==
    \E r \in EReqs :
        /\ ~silent
        /\ <<r, 2>> \in Range(pushed)
        /\ gate[<<r, 2>>] = "open"
        /\ gate[<<r, 1>>] = "closed"

\* C17: once a request's batch is enqueued, with a consumer that keeps
\* pulling and completing, the handler eventually writes its ACK frame
\* unless a keepalive write of the request fails.
C17_AckEventually ==
    \A r \in LiveHReqs :
        (hBatch[r] \in Range(pushed)) ~> (AckIndices(r) # {} \/ kaErr[r])

\* one request left the keepalive loop after a keepalive frame, the other
\* left the single wait, and both wrote their ACK
C17_Witness ==
    \E r1, r2 \in LiveHReqs :
        /\ hKeep[r1] /\ CountKind(resp[r1], "keepalive") > 0
        /\ AckIndices(r1) # {}
        /\ ~hKeep[r2] /\ AckIndices(r2) # {}

\* a step that is a call of Read
ReadCalled == cops' = cops + 1 /\ lastOp' = "read"

\* C12: Read with no current response returns the no-response error and
\* reads nothing; when the body reports end of input Read returns nil,
\* closes the body and clears the current response; no body is closed
\* twice; and the current response stays cleared, every Read returning the
\* no-response error, until a Push succeeds.
C12_Read ==
    /\ [](\A id \in 1..nresp : rclosed[id] <= 1)
    /\ [][(ReadCalled /\ cresp = 0) =>
            /\ lastErr' = "noresp" /\ lastN' = 0
            /\ rleft' = rleft /\ rclosed' = rclosed /\ cresp' = 0]_vars
    /\ [][(ReadCalled /\ lastEof') =>
            /\ lastErr' = "nil"
            /\ cresp' = 0
            /\ rclosed'[cresp] = rclosed[cresp] + 1]_vars
    /\ [][(cresp = 0 /\ cresp' # 0) =>
            (cpc = "inflight" /\ cpc' = "idle" /\ lastErr' = "nil")]_vars

\* a response was read to its end and closed, and the next Read returned the
\* no-response error
C12_Witness ==
    /\ lastOp = "read"
    /\ lastErr = "noresp"
    /\ \E id \in 1..nresp : rclosed[id] = 1 /\ rleft[id] = 0

\* C20: a Close call that has begun can always make its send on the
\* cancellation channel.
C20_CloseNeverBlocks == closePc = "send" => canceler < CancelCap

\* C21: a Read that follows a Push that returned an error (request failure
\* or a status other than 200) returns the no-response error and delivers no
\* bytes of the response of an earlier Push.
C21_FailedPushClears ==
    [][(ReadCalled /\ lastOp = "push" /\ cpc = "idle" /\ lastErr = "err") =>
            (lastErr' = "noresp" /\ lastN' = 0 /\ lastFrom' = 0)]_vars
====
